---- MODULE Spec2Model ----
(* A state-machine model of the synk.ai backend (src/main.py, src/schemas.py):  *)
(* the waitlist signup, the video upload, the background pipeline runner        *)
(* fake_ai_processing and the job lookup, over a document store holding the     *)
(* collections "videojob" and "waitlistuser".                                   *)
(*                                                                              *)
(* A step is one request handled, or one store operation of one runner: the     *)
(* loop's find_one and update_one are two steps, so that runners, uploads and   *)
(* lookups interleave between them. A store or filesystem operation either      *)
(* takes effect or raises without effect; every operation may raise.            *)
(* uuid4 values are taken to be distinct. The program deletes no document.      *)
EXTENDS Integers, Sequences, FiniteSets, TLC

VARIABLES
    videojob,      \* db["videojob"]: the documents, in insertion order
    waitlistuser,  \* db["waitlistuser"]: the documents, in insertion order
    uploads,       \* the files written under UPLOAD_DIR
    tasks,         \* the background tasks added by upload_video, one record per add_task
    nextId,        \* the uuid4 values handed out so far (each one is fresh)
    now,           \* datetime.utcnow()
    resp,          \* the HTTP response produced by the step just taken, if it was a request
    written,       \* history: per document, the (current_step, progress) rows $set on it
    seen           \* history: the job and the table row a polling client saw last

vars == <<videojob, waitlistuser, uploads, tasks, nextId, now, resp, written, seen>>

(* ------------------------------ bounds ------------------------------------ *)

\* uuid4 values (upload requests) per run
MaxJobs == 2
\* ticks of the clock per run
MaxClock == 1
\* waitlist documents per run
MaxWaitlist == 1

JobIds == 1..MaxJobs
\* identifier 0 is never produced by uuid4: a lookup key that names no job
LookupIds == 0..MaxJobs

(* ------------------------------ values ------------------------------------ *)

\* Optional[T]: None is the empty tuple, a value v is <<v>>
None == <<>>
Some(v) == <<v>>

\* strings that are tested character by character are tuples of characters
GoodEmail == <<"a", "@", "b", ".", "c">>
NoAtEmail == <<"a", "b", ".", "c">>
NoDotEmail == <<"a", "@", "b">>
Emails == {GoodEmail, NoAtEmail, NoDotEmail}
FileNames == {"clip.mp4"}
Sizes == {1024}

RECURSIVE CountOf(_, _)
CountOf(s, ch) ==
    IF s = <<>> THEN 0
    ELSE (IF Head(s) = ch THEN 1 ELSE 0) + CountOf(Tail(s), ch)

\* the position of the first ch in s (0 when there is none)
IndexOf(s, ch) ==
    IF \E k \in 1..Len(s) : s[k] = ch
    THEN CHOOSE k \in 1..Len(s) : s[k] = ch /\ \A m \in 1..(k - 1) : s[m] # ch
    ELSE 0

\* pydantic EmailStr: one "@", a non-empty local part, a domain made of at least
\* two non-empty labels separated by "."
EmailStr(s) ==
    /\ CountOf(s, "@") = 1
    /\ LET at == IndexOf(s, "@")
           domain == SubSeq(s, at + 1, Len(s))
       IN  /\ at > 1
           /\ Len(domain) > 0
           /\ CountOf(domain, ".") >= 1
           /\ domain[1] # "."
           /\ domain[Len(domain)] # "."
           /\ \A k \in 1..(Len(domain) - 1) : ~(domain[k] = "." /\ domain[k + 1] = ".")

\* the pipeline's step table
steps ==
    << <<"analyze_content", 15>>,
       <<"detect_cuts", 30>>,
       <<"auto_captions", 45>>,
       <<"select_music", 60>>,
       <<"insert_b_roll", 80>>,
       <<"color_and_export", 100>> >>

StepNames == {steps[k][1] : k \in 1..Len(steps)}

(* --------------------------- the document store --------------------------- *)

\* a query {"_id": v} or {"job_id": v}
ById(v) == [key |-> "_id", val |-> v]
ByJobId(v) == [key |-> "job_id", val |-> v]
Matches(doc, flt) == doc[flt.key] = flt.val

\* the position of the first document the query matches (0 when there is none)
Target(coll, flt) ==
    IF \E k \in 1..Len(coll) : Matches(coll[k], flt)
    THEN CHOOSE k \in 1..Len(coll) :
            /\ Matches(coll[k], flt)
            /\ \A m \in 1..(k - 1) : ~Matches(coll[m], flt)
    ELSE 0

\* collection.find_one(query): the first matching document, or None
find_one(coll, flt) ==
    IF Target(coll, flt) = 0 THEN None ELSE Some(coll[Target(coll, flt)])

\* the document after {"$set": fields}
SetFields(doc, fields) ==
    [f \in (DOMAIN doc) \cup (DOMAIN fields) |->
        IF f \in DOMAIN fields THEN fields[f] ELSE doc[f]]

\* collection.update_one(query, {"$set": fields}): the first matching document is
\* changed, and nothing is when no document matches
update_one(coll, flt, fields) ==
    [k \in 1..Len(coll) |->
        IF k = Target(coll, flt) THEN SetFields(coll[k], fields) ELSE coll[k]]

\* create_document(collection, data): the data is inserted under a fresh _id,
\* stamped with the time of the insert
create_document(coll, data) ==
    Append(coll, SetFields(data, [_id |-> Len(coll) + 1, updated_at |-> now]))

(* ------------------------------ responses --------------------------------- *)

NoResp == [op |-> "none", code |-> 0, body |-> None]
Response(op, code, body) == [op |-> op, code |-> code, body |-> body]

\* HTTPException(status_code, detail)
HTTPException(code, detail) == [exc |-> "HTTPException", status_code |-> code, detail |-> detail]
\* an error the store or the filesystem raises
StorageError == [exc |-> "StorageError", status_code |-> 0, detail |-> "storage"]
\* subscripting the None that find_one returned
TypeError == [exc |-> "TypeError", status_code |-> 0, detail |-> "NoneType"]
\* pydantic's error for a field that fails validation
ValidationError == [exc |-> "ValidationError", status_code |-> 0, detail |-> "email"]

(* ------------------------------- schemas ---------------------------------- *)

\* WaitlistPayload: email is any string; a body without one is refused
WaitlistPayload(email) == email # None

\* VideoJob(...).model_dump(): the fields given and the defaults of the others
VideoJob(email, filename, size_bytes, status, progress, current_step) ==
    [email |-> email, filename |-> filename, size_bytes |-> size_bytes,
     status |-> status, progress |-> progress, current_step |-> current_step,
     render_url |-> None, error |-> None]

\* VideoJob's validation: email is None or an EmailStr, progress is within 0..100
VideoJobValid(email, progress) ==
    /\ IF email = None THEN TRUE ELSE EmailStr(email[1])
    /\ progress >= 0 /\ progress <= 100

\* the position of a (current_step, progress) pair in the step table (0 when it is no row)
RowOf(step, progress) ==
    IF \E k \in 1..Len(steps) : steps[k] = <<step, progress>>
    THEN CHOOSE k \in 1..Len(steps) : steps[k] = <<step, progress>>
    ELSE 0

NotSeen == [job_id |-> 0, row |-> 0]

(* -------------------------------- Init ------------------------------------ *)

Init ==
    /\ videojob = <<>>
    /\ waitlistuser = <<>>
    /\ uploads = {}
    /\ tasks = <<>>
    /\ nextId = 0
    /\ now = 0
    /\ resp = NoResp
    /\ written = <<>>
    /\ seen = NotSeen

\* time passes
Tick ==
    /\ now < MaxClock
    /\ now' = now + 1
    /\ resp' = NoResp
    /\ UNCHANGED <<videojob, waitlistuser, uploads, tasks, nextId, written, seen>>

(* ---------------------- POST /api/waitlist (main.py 35-41) ---------------- *)

\* a body whose email is no string is refused by the framework before the handler runs
waitlist_signup(email, name, source) ==
    /\ Len(waitlistuser) < MaxWaitlist
    /\ IF WaitlistPayload(email)
       THEN /\ waitlistuser' = create_document(waitlistuser,
                    [email |-> email[1], name |-> name, source |-> source])
            /\ resp' = Response("waitlist", 200, [ok |-> TRUE, id |-> Len(waitlistuser) + 1])
       ELSE /\ waitlistuser' = waitlistuser
            /\ resp' = Response("waitlist", 422, [detail |-> ValidationError])
    /\ UNCHANGED <<videojob, uploads, tasks, nextId, now, written, seen>>

\* create_document raises: the handler answers 500 with the error's text
waitlist_signup_fails(email, name, source) ==
    /\ Len(waitlistuser) < MaxWaitlist
    /\ WaitlistPayload(email)
    /\ resp' = Response("waitlist", 500, [detail |-> StorageError])
    /\ UNCHANGED <<videojob, waitlistuser, uploads, tasks, nextId, now, written, seen>>

(* ----------------------- POST /api/upload (main.py 72-97) ----------------- *)

\* a task as background_tasks.add_task(fake_ai_processing, job_id, in_path) leaves it:
\* about to enter the loop at its first step
NewTask(job_id, in_path) ==
    [job_id |-> job_id, input_path |-> in_path, pc |-> "find", i |-> 1, oid |-> 0, exc |-> None]

add_task(ts, job_id, in_path) == Append(ts, NewTask(job_id, in_path))


\* a faulty NewJob: the job is created as processing
NewJobProcessing(job_id, email, filename, size_bytes) ==
    SetFields(VideoJob(email, filename, size_bytes, "processing", 0, "analyze_content"),
              [job_id |-> job_id])

\* the job document upload_video creates
NewJob(job_id, email, filename, size_bytes) ==
    SetFields(VideoJob(email, filename, size_bytes, "queued", 0, "analyze_content"),
              [job_id |-> job_id])

upload_video(email, name, size) ==
    /\ nextId < MaxJobs
    /\ nextId' = nextId + 1
    /\ LET job_id == nextId + 1
           filename == <<job_id, name>>
       IN  /\ uploads' = uploads \cup {filename}
           /\ IF VideoJobValid(email, 0)
              THEN /\ videojob' = create_document(videojob, NewJob(job_id, email, filename, size))
                   /\ written' = Append(written, <<>>)
                   /\ tasks' = add_task(tasks, job_id, filename)
                   /\ resp' = Response("upload", 200, [ok |-> TRUE, job_id |-> job_id])
              ELSE /\ resp' = Response("upload", 500, [detail |-> ValidationError])
                   /\ UNCHANGED <<videojob, written, tasks>>
    /\ UNCHANGED <<waitlistuser, now, seen>>

\* open() or write() raises: nothing is stored
upload_video_write_fails(email, name, size) ==
    /\ nextId < MaxJobs
    /\ nextId' = nextId + 1
    /\ resp' = Response("upload", 500, [detail |-> StorageError])
    /\ UNCHANGED <<videojob, waitlistuser, uploads, tasks, now, written, seen>>

\* create_document raises: the file stays, no job and no task
upload_video_create_fails(email, name, size) ==
    /\ nextId < MaxJobs
    /\ VideoJobValid(email, 0)
    /\ nextId' = nextId + 1
    /\ uploads' = uploads \cup {<<nextId + 1, name>>}
    /\ resp' = Response("upload", 500, [detail |-> StorageError])
    /\ UNCHANGED <<videojob, waitlistuser, tasks, now, written, seen>>

(* --------------------- GET /api/jobs/{job_id} (main.py 100-109) ----------- *)

\* the exception the try block ends with (None when it returns), and what it returns
get_job_raises(job_id) ==
    IF find_one(videojob, ByJobId(job_id)) = None
    THEN Some(HTTPException(404, "Job not found"))
    ELSE None

\* the document with its _id made a string
Serializable(job) == [job EXCEPT !._id = ToString(job._id)]

\* except Exception catches the HTTPException raised inside the try as well
get_job_response(job_id) ==
    IF get_job_raises(job_id) # None
    THEN Response("get", 500, [detail |-> get_job_raises(job_id)[1]])
    ELSE Response("get", 200, Serializable(find_one(videojob, ByJobId(job_id))[1]))

get_job_handler(job_id) ==
    /\ resp' = get_job_response(job_id)
    /\ UNCHANGED <<videojob, waitlistuser, uploads, tasks, nextId, now, written>>

get_job(job_id) ==
    /\ get_job_handler(job_id)
    /\ UNCHANGED seen

\* a client that polls: it remembers the job it asked for and the row it was shown
Poll(job_id) ==
    /\ get_job_handler(job_id)
    /\ seen' = IF get_job_response(job_id).code = 200
               THEN [job_id |-> job_id,
                     row |-> RowOf(get_job_response(job_id).body.current_step,
                                   get_job_response(job_id).body.progress)]
               ELSE seen

\* find_one raises
get_job_fails(job_id) ==
    /\ resp' = Response("get", 500, [detail |-> StorageError])
    /\ UNCHANGED <<videojob, waitlistuser, uploads, tasks, nextId, now, written, seen>>

(* ------------------- fake_ai_processing (main.py 50-69) ------------------- *)


\* a faulty RunnerQuery: the job is looked up by a field that is not unique
RunnerQueryBySize(job_id) == [key |-> "size_bytes", val |-> 1024]

\* the query of the loop's inner find_one, and of the two updates after the loop
RunnerQuery(job_id) == ByJobId(job_id)

\* two faulty StepUpdates: the last step marks the job completed; the step name is
\* left out
StepUpdateCompletes(row) ==
    [status |-> IF row[2] = 100 THEN "completed" ELSE "processing",
     current_step |-> row[1], progress |-> row[2], updated_at |-> now]

StepUpdateNoStep(row) ==
    [status |-> "processing", progress |-> row[2], updated_at |-> now]

\* the $set of one step of the loop
StepUpdate(row) ==
    [status |-> "processing", current_step |-> row[1], progress |-> row[2], updated_at |-> now]


\* a faulty CompletedUpdate: the render url is not attached
CompletedUpdateNoUrl(job_id) == [status |-> "completed", updated_at |-> now]

\* the $set after the loop, with the dummy render url
CompletedUpdate(job_id) ==
    [status |-> "completed",
     render_url |-> Some(<<"/api/demo/render/", job_id, ".mp4">>),
     updated_at |-> now]

\* the $set of the except clause
FailedUpdate(e) == [status |-> "failed", error |-> Some(e.exc)]


\* two faulty AfterSteps: the loop stops one step early; the loop skips a step
AfterStepEarly(i) ==
    IF i < Len(steps) - 1 THEN [pc |-> "find", i |-> i + 1] ELSE [pc |-> "final", i |-> i]

AfterStepSkips(i) ==
    IF i + 1 < Len(steps) THEN [pc |-> "find", i |-> i + 2] ELSE [pc |-> "final", i |-> i]

\* where the loop goes after step i: the next step, or the code after the loop
AfterStep(i) == IF i < Len(steps) THEN [pc |-> "find", i |-> i + 1] ELSE [pc |-> "final", i |-> i]

Raise(task, e) == [task EXCEPT !.pc = "except", !.exc = Some(e)]

Running(t) == t \in 1..Len(tasks)

\* line 63, inner call: find_one({"job_id": job_id})["_id"]
RunnerFind(t) ==
    /\ Running(t) /\ tasks[t].pc = "find"
    /\ LET found == find_one(videojob, RunnerQuery(tasks[t].job_id))
       IN  tasks' = [tasks EXCEPT ![t] =
                IF found = None THEN Raise(@, TypeError)
                ELSE [@ EXCEPT !.pc = "update", !.oid = found[1]._id]]
    /\ resp' = NoResp
    /\ UNCHANGED <<videojob, waitlistuser, uploads, nextId, now, written, seen>>

RunnerFindFails(t) ==
    /\ Running(t) /\ tasks[t].pc = "find"
    /\ tasks' = [tasks EXCEPT ![t] = Raise(@, StorageError)]
    /\ resp' = NoResp
    /\ UNCHANGED <<videojob, waitlistuser, uploads, nextId, now, written, seen>>

\* line 63, outer call: update_one({"_id": ...}, {"$set": ...}), then the sleep
RunnerUpdate(t) ==
    /\ Running(t) /\ tasks[t].pc = "update"
    /\ LET flt == ById(tasks[t].oid)
           row == steps[tasks[t].i]
       IN  /\ videojob' = update_one(videojob, flt, StepUpdate(row))
           /\ written' = [k \in 1..Len(written) |->
                            IF k = Target(videojob, flt) THEN Append(written[k], row)
                            ELSE written[k]]
    /\ tasks' = [tasks EXCEPT ![t] =
                    [@ EXCEPT !.pc = AfterStep(tasks[t].i).pc, !.i = AfterStep(tasks[t].i).i]]
    /\ resp' = NoResp
    /\ UNCHANGED <<waitlistuser, uploads, nextId, now, seen>>

RunnerUpdateFails(t) ==
    /\ Running(t) /\ tasks[t].pc = "update"
    /\ tasks' = [tasks EXCEPT ![t] = Raise(@, StorageError)]
    /\ resp' = NoResp
    /\ UNCHANGED <<videojob, waitlistuser, uploads, nextId, now, written, seen>>

\* lines 66-67: the update to completed
RunnerFinal(t) ==
    /\ Running(t) /\ tasks[t].pc = "final"
    /\ videojob' = update_one(videojob, RunnerQuery(tasks[t].job_id),
                              CompletedUpdate(tasks[t].job_id))
    /\ tasks' = [tasks EXCEPT ![t].pc = "done"]
    /\ resp' = NoResp
    /\ UNCHANGED <<waitlistuser, uploads, nextId, now, written, seen>>

RunnerFinalFails(t) ==
    /\ Running(t) /\ tasks[t].pc = "final"
    /\ tasks' = [tasks EXCEPT ![t] = Raise(@, StorageError)]
    /\ resp' = NoResp
    /\ UNCHANGED <<videojob, waitlistuser, uploads, nextId, now, written, seen>>

\* lines 68-69: the except clause's update to failed
RunnerExcept(t) ==
    /\ Running(t) /\ tasks[t].pc = "except"
    /\ videojob' = update_one(videojob, RunnerQuery(tasks[t].job_id),
                              FailedUpdate(tasks[t].exc[1]))
    /\ tasks' = [tasks EXCEPT ![t].pc = "done"]
    /\ resp' = NoResp
    /\ UNCHANGED <<waitlistuser, uploads, nextId, now, written, seen>>

\* the except clause's own update raises: the error leaves the task, nothing is written
RunnerExceptFails(t) ==
    /\ Running(t) /\ tasks[t].pc = "except"
    /\ tasks' = [tasks EXCEPT ![t].pc = "crashed"]
    /\ resp' = NoResp
    /\ UNCHANGED <<videojob, waitlistuser, uploads, nextId, now, written, seen>>

(* ------------------------------ the system -------------------------------- *)

\* the form's email field, given (left out, it is None and passes VideoJob's validation
\* as a well-formed address does)
UploadEmails == {Some(e) : e \in Emails}
WaitlistEmails == {None} \cup {Some(e) : e \in Emails}
Names == {None}
Sources == {Some("marketing")}
TaskIds == 1..MaxJobs

WaitlistRequests ==
    \/ \E email \in WaitlistEmails, name \in Names, source \in Sources :
            waitlist_signup(email, name, source)
    \/ \E email \in WaitlistEmails, name \in Names, source \in Sources :
            waitlist_signup_fails(email, name, source)

Upload ==
    \E email \in UploadEmails, name \in FileNames, size \in Sizes :
        upload_video(email, name, size)

UploadFaults ==
    \/ \E email \in UploadEmails, name \in FileNames, size \in Sizes :
            upload_video_write_fails(email, name, size)
    \/ \E email \in UploadEmails, name \in FileNames, size \in Sizes :
            upload_video_create_fails(email, name, size)

Lookup ==
    \/ \E job_id \in LookupIds : get_job(job_id)
    \/ \E job_id \in LookupIds : get_job_fails(job_id)

\* the runner while the store answers
Runner(t) == RunnerFind(t) \/ RunnerUpdate(t) \/ RunnerFinal(t)

\* the runner when a store operation raises
RunnerFaults(t) ==
    \/ RunnerFindFails(t) \/ RunnerUpdateFails(t) \/ RunnerFinalFails(t)
    \/ RunnerExcept(t) \/ RunnerExceptFails(t)

\* the jobs: uploads, lookups and runners, the store failing at any operation
JobNext ==
    \/ Upload
    \/ UploadFaults
    \/ Lookup
    \/ \E t \in TaskIds : Runner(t)
    \/ \E t \in TaskIds : RunnerFaults(t)

Next ==
    \/ Tick
    \/ WaitlistRequests
    \/ JobNext

\* the whole program
Spec == Init /\ [][Next]_vars

\* the jobs alone: the waitlist collection is touched by no job operation, and no
\* job operation reads the clock's value back
JobSpec == Init /\ [][JobNext]_vars

\* a store that never fails, clients that poll, and background tasks that are run:
\* while some runner has a step to take, a runner's step is eventually taken (the
\* thread pool running the tasks does not stop; fairness to each runner gives this)
LiveNext ==
    \/ Upload
    \/ \E job_id \in LookupIds : Poll(job_id)
    \/ \E t \in TaskIds : Runner(t)

LiveSpec == Init /\ [][LiveNext]_vars /\ WF_vars(\E t \in TaskIds : Runner(t))

(* ------------------------------ the claims -------------------------------- *)

Jobs == 1..Len(videojob)
HasJob(job_id) == \E k \in Jobs : videojob[k].job_id = job_id
TasksOf(job_id) == {t \in 1..Len(tasks) : tasks[t].job_id = job_id}

\* C1: a lookup of a job identifier that has no record answers 404 "Job not found",
\* never 500 and never a record.
C1_NotFound ==
    [][\A job_id \in LookupIds :
          (find_one(videojob, ByJobId(job_id)) = None /\ get_job(job_id))
          => /\ resp'.code = 404
             /\ resp'.body.detail = "Job not found"]_vars

\* C2: no waitlist record is ever created from a malformed email: a request with one
\* is rejected and the collection stays as it was.
C2_NoMalformedWaitlist ==
    \A k \in 1..Len(waitlistuser) : EmailStr(waitlistuser[k].email)

\* C3 as stated: for every job, progress = 100 if and only if status = completed.
C3_Original ==
    \A k \in Jobs : (videojob[k].progress = 100) <=> (videojob[k].status = "completed")

\* C3 as amended: a completed job has progress 100, and progress 100 is shown only
\* from the last step color_and_export on (processing that step, completed, or failed
\* after it).
C3_Amended ==
    \A k \in Jobs :
        /\ videojob[k].status = "completed" => videojob[k].progress = 100
        /\ videojob[k].progress = 100 =>
              /\ videojob[k].status \in {"processing", "completed", "failed"}
              /\ videojob[k].current_step = "color_and_export"

C3_Witness ==
    /\ \E k \in Jobs : videojob[k].status = "completed" /\ videojob[k].progress = 100
    /\ \E k \in Jobs : videojob[k].status = "failed" /\ videojob[k].progress = 100

\* C4: a completed job has render_url set and no error, a failed job has error set and
\* no render_url, and a queued or processing job has neither.
C4_RenderXorError ==
    \A k \in Jobs :
        /\ videojob[k].status = "completed" =>
              videojob[k].render_url # None /\ videojob[k].error = None
        /\ videojob[k].status = "failed" =>
              videojob[k].error # None /\ videojob[k].render_url = None
        /\ videojob[k].status \in {"queued", "processing"} =>
              videojob[k].render_url = None /\ videojob[k].error = None
        /\ videojob[k].status \in {"queued", "processing", "completed", "failed"}

C4_Witness ==
    /\ \E k \in Jobs : videojob[k].status = "completed" /\ videojob[k].render_url # None
    /\ \E k \in Jobs : videojob[k].status = "failed" /\ videojob[k].error # None

\* C5: when a step has raised, the runner's next write sets status = failed, sets error
\* to the failure's description, refreshes updated_at, leaves progress and current_step
\* as they were, and the runner is done.
C5_FailureWrite ==
    [][\A t \in TaskIds :
          RunnerExcept(t) =>
              LET k == Target(videojob, ByJobId(tasks[t].job_id))
              IN  /\ videojob'[k].status = "failed"
                  /\ videojob'[k].error = Some(tasks[t].exc[1].exc)
                  /\ videojob'[k].updated_at = now
                  /\ videojob'[k].progress = videojob[k].progress
                  /\ videojob'[k].current_step = videojob[k].current_step
                  /\ tasks'[t].pc = "done"]_vars

\* the status changes the state diagram queued -> processing -> {completed | failed} allows
DiagramChanges ==
    {<<"queued", "processing">>, <<"processing", "completed">>, <<"processing", "failed">>}

StatusChangesWithin(allowed) ==
    \A k \in Jobs :
        \/ videojob'[k].status = videojob[k].status
        \/ <<videojob[k].status, videojob'[k].status>> \in allowed

\* C6 as stated: every change of a job's status is queued -> processing,
\* processing -> completed or processing -> failed.
C6_Original == [][StatusChangesWithin(DiagramChanges)]_vars

\* C6 as amended: every change of a job's status is queued -> processing,
\* queued -> failed, processing -> completed or processing -> failed; no job goes from
\* queued to completed, and a completed or failed job keeps its status.
C6_Amended == [][StatusChangesWithin(DiagramChanges \cup {<<"queued", "failed">>})]_vars

C6_Witness ==
    /\ \E k \in Jobs : videojob[k].status = "failed" /\ written[k] = <<>>
    /\ \E k \in Jobs : videojob[k].status = "completed"

\* a successful lookup of a job that is not completed yet
PollBeforeCompletion ==
    /\ resp.op = "get" /\ resp.code = 200
    /\ resp.body.status # "completed"

Completed(job_id) ==
    \E k \in Jobs :
        /\ videojob[k].job_id = job_id
        /\ videojob[k].status = "completed"
        /\ videojob[k].progress = 100
        /\ videojob[k].render_url # None

\* a job that is uploaded is, from some point on, completed with progress 100 and a
\* render url
EventuallyCompleted ==
    \A job_id \in JobIds : <>[](HasJob(job_id) => Completed(job_id))

\* two polls of one job show rows in table order
PollsInTableOrder ==
    [][seen'.job_id = seen.job_id => seen'.row >= seen.row]_vars

\* C7 as stated: with a store that does not fail and runners scheduled fairly, an
\* uploaded job is eventually completed with progress 100 and render_url set, every
\* poll before that shows a row of the step table, and rows are seen in table order.
C7_Original ==
    /\ EventuallyCompleted
    /\ [](PollBeforeCompletion => RowOf(resp.body.current_step, resp.body.progress) # 0)
    /\ PollsInTableOrder

\* C7 as amended: as stated, except that a poll before the runner's first update shows
\* the pair the upload created, (analyze_content, 0) with status queued, which is no
\* row of the table.
C7_Amended ==
    /\ EventuallyCompleted
    /\ [](PollBeforeCompletion =>
            \/ RowOf(resp.body.current_step, resp.body.progress) # 0
            \/ /\ resp.body.status = "queued"
               /\ resp.body.current_step = steps[1][1]
               /\ resp.body.progress = 0)
    /\ PollsInTableOrder

C7_Witness ==
    /\ resp.op = "get" /\ resp.code = 200
    /\ resp.body.status = "completed"
    /\ resp.body.progress = 100
    /\ resp.body.render_url # None
    /\ seen.row = Len(steps)

\* C8: every job has exactly one runner, every runner has a job, and a step of the
\* runner of one job (any step that moves its task) leaves the document of every other
\* job as it was.
C8_OneWriter ==
    /\ [](/\ \A k \in Jobs : Cardinality(TasksOf(videojob[k].job_id)) = 1
          /\ \A t \in 1..Len(tasks) : HasJob(tasks[t].job_id))
    /\ [][\A t \in 1..Len(tasks) :
             tasks'[t] # tasks[t] =>
                 \A k \in Jobs :
                     videojob[k].job_id # tasks[t].job_id => videojob'[k] = videojob[k]]_vars

C8_Witness ==
    \E k, m \in Jobs :
        /\ videojob[k].status = "processing"
        /\ videojob[m].status = "processing"
        /\ videojob[k].progress > videojob[m].progress

\* the runner of the job has not written a step yet
BeforeFirstStep(job_id) ==
    \A t \in TasksOf(job_id) : tasks[t].i = 1 /\ tasks[t].pc \in {"find", "update"}

IsCreated(doc) ==
    doc.status = "queued" /\ doc.progress = 0 /\ doc.current_step = "analyze_content"

\* C9: when upload answers 200 the job is stored as (queued, 0, analyze_content) and its
\* runner is scheduled and has not run; a read before the runner's first step shows
\* those values; the runner's lookup never misses the record; and an upload that
\* answers 500 has scheduled no runner and stored no job.
C9_UploadThenRun ==
    /\ (resp.op = "upload" /\ resp.code = 200) =>
          /\ \E k \in Jobs : videojob[k].job_id = resp.body.job_id /\ IsCreated(videojob[k])
          /\ \E t \in TasksOf(resp.body.job_id) :
                tasks[t].pc = "find" /\ tasks[t].i = 1 /\ tasks[t].exc = None
    /\ (resp.op = "get" /\ resp.code = 200 /\ BeforeFirstStep(resp.body.job_id)) =>
          IsCreated(resp.body)
    /\ \A t \in 1..Len(tasks) :
          /\ tasks[t].pc = "find" => find_one(videojob, ByJobId(tasks[t].job_id)) # None
          /\ tasks[t].exc # Some(TypeError)
    /\ (resp.op = "upload" /\ resp.code = 500) =>
          TasksOf(nextId) = {} /\ ~HasJob(nextId)

C9_Witness ==
    /\ resp.op = "get" /\ resp.code = 200
    /\ BeforeFirstStep(resp.body.job_id)
    /\ \E t \in TasksOf(resp.body.job_id) : tasks[t].pc = "update"
    /\ \E job_id \in JobIds : ~HasJob(job_id) /\ job_id <= nextId

\* C10: the rows written to a job are a prefix of the step table, the job shows the
\* last row written (or what the upload created), and no write lowers progress.
C10_TablePrefix ==
    /\ [](\A k \in Jobs :
            /\ Len(written[k]) <= Len(steps)
            /\ written[k] = SubSeq(steps, 1, Len(written[k]))
            /\ videojob[k].current_step \in StepNames
            /\ <<videojob[k].current_step, videojob[k].progress>> =
                  IF written[k] = <<>> THEN <<"analyze_content", 0>>
                  ELSE written[k][Len(written[k])])
    /\ [][\A k \in Jobs : videojob'[k].progress >= videojob[k].progress]_vars

C10_Witness ==
    \E k \in Jobs : videojob[k].status = "failed" /\ Len(written[k]) = 3

====
